---- MODULE Spec2Model ----
(***************************************************************************)
(* Model of the meeting-intelligence worker of app/api/chat/route.ts:      *)
(* handleEnhancedMeetingSync and its helpers (associateTranscriptWith-     *)
(* Project, generateBusinessInsights, createEnhancedMarkdown, uploadToR2,  *)
(* triggerAutoRAGSync) over the D1 tables, the R2 bucket and the clock.    *)
(*                                                                         *)
(* Strings that the code searches or concatenates are sequences of         *)
(* one-character strings; other strings are atoms.                         *)
(***************************************************************************)
EXTENDS Integers, Sequences, FiniteSets, TLC

VARIABLES
    projects,          \* D1 table projects: set of rows
    meetings,          \* D1 table meetings: set of rows
    tasks,             \* D1 table tasks: set of rows
    project_insights,  \* D1 table project_insights: sequence of rows, in insert order
    documents,         \* R2 bucket: set of [key, content, contentType]
    clock,             \* what Date.now() / new Date() reads
    signals,           \* per handler: sync triggers attempted / received by AutoRAG
    fetched,           \* number of transcripts the source has returned so far
    phase,             \* per request handler: where handleEnhancedMeetingSync is
    source,            \* per handler: what the Fireflies call of this request did
    batch,             \* per handler: firefliesData.data.transcripts (ids)
    pipe,              \* per handler: the async callbacks of the map, by index
                       \* (inserted: the project_insights rows the callback inserted)
    response,          \* per handler: the Response returned, or NoResponse
    lastUpsert,        \* per transcript id: the row bound by the latest upsert that ran
    q_title,           \* associateTranscriptWithProject: the title argument
    q_result,          \* associateTranscriptWithProject: the returned id, or Unset
    c_message,         \* extractProjectContext: the message argument
    c_result,          \* extractProjectContext: what it returned, or NotReturned
    e_request,         \* a request to the worker, and what its calls will do
    e_outcome          \* what the worker's fetch gave for it, or Pending

store == <<projects, tasks, meetings, project_insights, documents>>
request == <<signals, fetched, phase, source, batch, response>>
sync == <<request, pipe, lastUpsert>>
query == <<q_title, q_result, c_message, c_result, e_request, e_outcome>>
vars == <<store, clock, sync, query>>

----------------------------------------------------------------------------
(* Bounds *)

MaxTitleLen == 2
MaxFragments == 3
MaxListLen == 11
MaxUpdated == 2
MaxFetched == 2
MaxClock == 1

----------------------------------------------------------------------------
(* Values *)

\* JavaScript null / SQL NULL where a project id is expected
NullId == "null"
\* SQL NULL where a character string is expected (no character is "NULL")
NullStr == <<"NULL">>
\* a result that has not been produced yet
Unset == "unset"

ProjectIds == {"p1", "p2"}

RECURSIVE SeqsUpTo(_, _)
SeqsUpTo(S, n) ==
    IF n = 0 THEN {<<>>}
    ELSE LET shorter == SeqsUpTo(S, n - 1)
         IN  shorter \cup {Append(s, c) : s \in {x \in shorter : Len(x) = n - 1}, c \in S}

----------------------------------------------------------------------------
(* SQL string functions used by associateTranscriptWithProject *)

\* LOWER(): ASCII letters only
LowerChar(c) ==
    CASE c = "A" -> "a"
      [] c = "B" -> "b"
      [] c = "G" -> "g"
      [] OTHER -> c

LOWER(s) == IF s = NullStr THEN NullStr ELSE [i \in 1..Len(s) |-> LowerChar(s[i])]

\* '%' || x || '%' : NULL when x is NULL
Wrap(x) == IF x = NullStr THEN NullStr ELSE <<"%">> \o x \o <<"%">>

\* text LIKE pattern, both non-NULL: % matches any run, _ any one character,
\* other characters match themselves ignoring ASCII case
RECURSIVE LikeMatch(_, _)
LikeMatch(t, p) ==
    IF p = <<>> THEN t = <<>>
    ELSE IF Head(p) = "%"
         THEN LikeMatch(t, Tail(p)) \/ (t # <<>> /\ LikeMatch(Tail(t), p))
         ELSE /\ t # <<>>
              /\ (Head(p) = "_" \/ LowerChar(Head(p)) = LowerChar(Head(t)))
              /\ LikeMatch(Tail(t), Tail(p))

\* text LIKE pattern as a WHERE condition: NULL (either side) is not true
LIKE(t, p) == t # NullStr /\ p # NullStr /\ LikeMatch(t, p)

\* the WHERE clause for one row of projects
WhereMatches(row, title) ==
    \/ LIKE(LOWER(title), LOWER(Wrap(row.name)))
    \/ LIKE(LOWER(title), LOWER(Wrap(row.autorag_project_tag)))

\* the mutant: the alias/tag disjunct is dropped
AssociateByNameOnly(db, title) ==
    LET hits == {r \in db : LIKE(LOWER(title), LOWER(Wrap(r.name)))}
    IN  IF hits = {} THEN {NullId}
        ELSE {r.id : r \in {h \in hits : \A o \in hits : o.updated_at <= h.updated_at}}

\* the ids associateTranscriptWithProject may return: ORDER BY updated_at DESC
\* LIMIT 1 leaves the choice among rows of equal updated_at to the store
associateTranscriptWithProject(db, title) ==
    LET hits == {r \in db : WhereMatches(r, title)}
    IN  IF hits = {} THEN {NullId}
        ELSE {r.id : r \in {h \in hits : \A o \in hits : o.updated_at <= h.updated_at}}

----------------------------------------------------------------------------
(* extractProjectContext *)

\* message.toLowerCase()
toLowerCase(s) == [i \in 1..Len(s) |-> LowerChar(s[i])]

\* \w of the regular expression, on lower-cased text
WordChars ==
    {"a", "b", "c", "d", "e", "f", "g", "h", "i", "j", "k", "l", "m", "n", "o", "p",
     "q", "r", "s", "t", "u", "v", "w", "x", "y", "z", "_",
     "0", "1", "2", "3", "4", "5", "6", "7", "8", "9"}

\* the alternatives of the regular expression, in its order
projectKeywordList ==
    << <<"g", "o", "o", "d", "w", "i", "l", "l">>,
       <<"b", "l", "o", "o", "m", "i", "n", "g", "t", "o", "n">>,
       <<"p", "o", "r", "t", " ", "c", "o", "l", "l", "e", "c", "t", "i", "v", "e">>,
       <<"a", "l", "l", "e", "a", "t", "o">> >>

\* kw stands in text at position i
OccursAt(text, kw, i) ==
    /\ i >= 1
    /\ i + Len(kw) - 1 <= Len(text)
    /\ \A k \in 1..Len(kw) : text[i + k - 1] = kw[k]

\* \b(kw)\b matches at position i: kw begins and ends with a word character,
\* so the characters next to it, if any, are not word characters
WordMatchAt(text, kw, i) ==
    /\ OccursAt(text, kw, i)
    /\ (i = 1 \/ text[i - 1] \notin WordChars)
    /\ (i + Len(kw) - 1 = Len(text) \/ text[i + Len(kw)] \notin WordChars)

\* the mutant: the expression without the two \b
FirstSubstringKeyword(message) ==
    LET text == toLowerCase(message)
        at(i) == {n \in 1..Len(projectKeywordList) :
                     OccursAt(text, projectKeywordList[n], i)}
        hits == {i \in 1..Len(text) : at(i) # {}}
    IN  IF hits = {} THEN <<>>
        ELSE LET first == CHOOSE i \in hits : \A j \in hits : i <= j
             IN  <<projectKeywordList[CHOOSE n \in at(first) : \A m \in at(first) : n <= m]>>

\* message.toLowerCase().match(/\b(...)\b/g): null (here <<>>) without a
\* match, else the matches from left to right, of which only [0] is used:
\* the leftmost match, at one position the first alternative that matches
projectKeywords(message) ==
    LET text == toLowerCase(message)
        at(i) == {n \in 1..Len(projectKeywordList) :
                     WordMatchAt(text, projectKeywordList[n], i)}
        hits == {i \in 1..Len(text) : at(i) # {}}
    IN  IF hits = {} THEN <<>>
        ELSE LET first == CHOOSE i \in hits : \A j \in hits : i <= j
             IN  <<projectKeywordList[CHOOSE n \in at(first) : \A m \in at(first) : n <= m]>>

\* the view project_dashboard: one row per row of projects
project_dashboard(db) == db

NoProject == [id |-> NullId, name |-> NullStr, insights |-> {}]
NotReturned == [id |-> Unset, name |-> NullStr, insights |-> {}]

\* SELECT title, description FROM project_insights WHERE project_id = ? AND
\* requires_action = TRUE LIMIT 3: which three, the store chooses
OpenInsights(table, id) ==
    LET open == {k \in 1..Len(table) :
                    table[k].project_id = id /\ table[k].requires_action}
        n == IF Cardinality(open) < 3 THEN Cardinality(open) ELSE 3
    IN  {{[title |-> table[k].title, description |-> table[k].description] : k \in pick} :
            pick \in {x \in SUBSET open : Cardinality(x) = n}}

\* the values extractProjectContext may return when no query throws
extractProjectContext(message, db, insightsTable) ==
    LET kws == projectKeywords(message)
        hits == IF kws = <<>> THEN {}
                ELSE {r \in project_dashboard(db) :
                         LIKE(LOWER(r.name), <<"%">> \o kws[1] \o <<"%">>)}
        latest == {h \in hits : \A o \in hits : o.updated_at <= h.updated_at}
    IN  IF hits = {} THEN {NoProject}
        ELSE UNION {{[id |-> r.id, name |-> r.name, insights |-> ins] :
                        ins \in OpenInsights(insightsTable, r.id)} : r \in latest}

----------------------------------------------------------------------------
(* A request to the worker and its outcome *)

NoRequest ==
    [endpoint |-> "", method |-> "", id |-> "", body |-> "", message |-> <<>>,
     store |-> "", model |-> "", upstream |-> "", timeline_status |-> ""]

\* the promise of a handler: pending, fulfilled with a Response, or rejected;
\* calls: the statements run and the services called on the way;
\* forwarded: what the chat sent to the answer service (context "": nothing)
Pending ==
    [kind |-> "pending", status |-> 0, fields |-> {}, calls |-> {}, insights |-> {},
     recentMeetings |-> {}, executiveSummary |-> "",
     forwarded |-> [context |-> "", question |-> <<>>], projectContext |-> "absent"]

----------------------------------------------------------------------------
(* The transcripts the Fireflies source can return *)

TranscriptIds == {"t1", "t2"}

\* start_time in seconds, duration as the source gives it
Transcripts ==
    [id \in TranscriptIds |->
        IF id = "t1"
        THEN [id |-> "t1", title |-> <<"G", "a", "b">>, date |-> "2025-01-06",
              duration |-> 1830, attendees |-> <<"ann", "bob">>,
              sentences |-> <<[speaker_name |-> "ann", text |-> "hello", start_time |-> 0],
                              [speaker_name |-> "bob", text |-> "budget", start_time |-> 75]>>]
        ELSE [id |-> "t2", title |-> <<"b">>, date |-> "2025-01-07",
              duration |-> 0, attendees |-> <<>>,
              sentences |-> <<>>]]

\* the projects table of the deployment: one project, no alias/tag
DeployedProjects ==
    {[id |-> "p1", name |-> <<"g", "a">>, autorag_project_tag |-> NullStr, updated_at |-> 1]}

\* the tasks table of the deployment, kept by the external system
DeployedTasks ==
    {[id |-> "k1", project_id |-> "p1", status |-> "open", estimated_hours |-> 3,
      actual_hours |-> 1]}

----------------------------------------------------------------------------
(* JavaScript values of the insight object *)

InsightFields ==
    {"summary", "meetingType", "actionItems", "decisions", "risks", "insights",
     "followUpRequired"}

\* a parsed JSON value: null, or an object; an object's absent properties are
\* listed in missing and read as undefined
JsNull ==
    [type |-> "null", missing |-> InsightFields, summary |-> <<>>, meetingType |-> "",
     actionItems |-> <<>>, decisions |-> <<>>, risks |-> <<>>, insights |-> <<>>,
     followUpRequired |-> FALSE]

JsEmptyObject == [JsNull EXCEPT !.type = "object"]

JsObject(summary, meetingType, actionItems, decisions, risks, insights, followUp) ==
    [type |-> "object", missing |-> {}, summary |-> summary, meetingType |-> meetingType,
     actionItems |-> actionItems, decisions |-> decisions, risks |-> risks,
     insights |-> insights, followUpRequired |-> followUp]

\* reading o.f throws a TypeError when o is null
ReadThrows(o) == o.type = "null"
\* o.f is undefined
IsUndefined(o, f) == f \in o.missing
\* o.f.length or o.f.map(...) throws a TypeError
LengthThrows(o, f) == ReadThrows(o) \/ IsUndefined(o, f)

\* a value bound to a statement parameter: undefined or the value
Bound(o, f) == [undefined |-> IsUndefined(o, f), value |-> o[f]]
\* JSON.stringify(o.f): undefined for undefined, else the text of the value
JSONstringify(o, f) == [undefined |-> IsUndefined(o, f), json |-> <<"json", o[f]>>]

----------------------------------------------------------------------------
(* generateBusinessInsights *)

\* what ai.run can do: reject, or resolve with a response text
AiTexts == {"I cannot help with that", "null", "{}", "{summary..insights:[r,o]}"}
AiOutcomes == {[rejects |-> TRUE, response |-> ""]} \cup
              [rejects : {FALSE}, response : AiTexts]

\* JSON.parse: throws (ok = FALSE) on text that is not JSON
JSONparse(text) ==
    CASE text = "null" -> [ok |-> TRUE, value |-> JsNull]
      [] text = "{}" -> [ok |-> TRUE, value |-> JsEmptyObject]
      [] text = "{summary..insights:[r,o]}" ->
            [ok |-> TRUE,
             value |-> JsObject(<<"l", "a", "t", "e">>, "review", <<"call client">>,
                          <<"ship it">>, <<[title |-> "delay", severity |-> "high"]>>,
                          <<[type |-> "risk", title |-> "delay", description |-> "d1",
                             requiresAction |-> TRUE, confidence |-> 8],
                            [type |-> "opportunity", title |-> "upsell",
                             description |-> "d2", requiresAction |-> FALSE,
                             confidence |-> 5]>>,
                          TRUE)]
      [] OTHER -> [ok |-> FALSE, value |-> JsNull]

MeetingPrefix == <<"M", "e", "e", "t", "i", "n", "g", ":", " ">>

\* the object of the catch branch
FallbackInsights(transcript) ==
    JsObject(MeetingPrefix \o transcript.title, "project", <<>>, <<>>, <<>>, <<>>, FALSE)

\* the mutant: the catch branch rethrows, modelled by returning null (the
\* caller's next property read throws)
generateBusinessInsightsNoCatch(transcript, out) ==
    IF out.rejects \/ ~JSONparse(out.response).ok
    THEN JsNull
    ELSE JSONparse(out.response).value

\* the mutant: the fallback summary is the bare title
generateBusinessInsightsBareTitle(transcript, out) ==
    IF out.rejects \/ ~JSONparse(out.response).ok
    THEN [FallbackInsights(transcript) EXCEPT !.summary = transcript.title]
    ELSE JSONparse(out.response).value

\* the value generateBusinessInsights returns when ai.run does out
generateBusinessInsights(transcript, out) ==
    IF out.rejects \/ ~JSONparse(out.response).ok
    THEN FallbackInsights(transcript)
    ELSE JSONparse(out.response).value

----------------------------------------------------------------------------
(* createEnhancedMarkdown *)

\* Math.round(duration / 60) for duration >= 0
RoundMinutes(duration) == (duration + 30) \div 60

toUpperCase(sev) ==
    CASE sev = "low" -> "LOW"
      [] sev = "medium" -> "MEDIUM"
      [] sev = "high" -> "HIGH"
      [] OTHER -> sev

\* sentence.start_time ? `[m:ss]` : ''   (0 is falsy)
Timestamp(start_time) ==
    IF start_time = 0 THEN <<>>
    ELSE <<"[", start_time \div 60, ":", (start_time % 60) \div 10, (start_time % 60) % 10, "]">>

Numbered(list) == [i \in 1..Len(list) |-> [n |-> i, text |-> list[i]]]

\* createEnhancedMarkdown throws a TypeError on these insights
MarkdownThrows(insights) ==
    \/ ReadThrows(insights)
    \/ \E f \in {"insights", "actionItems", "risks", "decisions"} : IsUndefined(insights, f)

\* the document, section by section; now is what new Date() reads
createEnhancedMarkdown(transcript, insights, projectId, now) ==
    [front |-> [title |-> transcript.title,
                project_id |-> IF projectId = NullId THEN "unknown" ELSE projectId,
                meeting_type |-> Bound(insights, "meetingType"),
                date |-> transcript.date,
                duration |-> RoundMinutes(transcript.duration),
                insights_generated |-> Len(insights.insights),
                action_items |-> Len(insights.actionItems),
                risks_identified |-> Len(insights.risks)],
     heading |-> transcript.title,
     project |-> IF projectId = NullId THEN "Not Associated" ELSE projectId,
     date |-> <<"toLocaleDateString", transcript.date>>,
     type |-> Bound(insights, "meetingType"),
     summary |-> Bound(insights, "summary"),
     actionItems |-> Numbered(insights.actionItems),
     decisions |-> Numbered(insights.decisions),
     risks |-> [i \in 1..Len(insights.risks) |->
                   [severity |-> toUpperCase(insights.risks[i].severity),
                    title |-> insights.risks[i].title]],
     transcript |-> IF transcript.sentences = <<>>
                    THEN <<[timestamp |-> <<>>, speaker |-> "",
                            text |-> "No transcript available."]>>
                    ELSE [i \in 1..Len(transcript.sentences) |->
                             [timestamp |-> Timestamp(transcript.sentences[i].start_time),
                              speaker |-> transcript.sentences[i].speaker_name,
                              text |-> transcript.sentences[i].text]],
     generated |-> <<"toISOString", now>>,
     source |-> "Fireflies.ai Enhanced with Business Intelligence"]

----------------------------------------------------------------------------
(* The stores *)

\* the unique key of meetings (the schema): the transcript id
MeetingsKey(row) == row.id

\* the mutant: a plain insert into a table that takes it, the old row is kept
InsertKeepingOld(table, row) == table \cup {row}

\* INSERT OR REPLACE INTO meetings: the row replaces the one of the same key
InsertOrReplace(table, row) ==
    {r \in table : MeetingsKey(r) # MeetingsKey(row)} \cup {row}

\* the row the meetings statement binds
MeetingRow(transcript, businessInsights, projectId, now) ==
    [id |-> transcript.id,
     title |-> transcript.title,
     date |-> transcript.date,
     duration |-> RoundMinutes(transcript.duration),
     participants |-> <<"json", transcript.attendees>>,
     fireflies_id |-> transcript.id,
     summary |-> Bound(businessInsights, "summary"),
     project_id |-> projectId,
     meeting_type |-> Bound(businessInsights, "meetingType"),
     action_items_json |-> JSONstringify(businessInsights, "actionItems"),
     key_decisions_json |-> JSONstringify(businessInsights, "decisions"),
     ai_risk_flags |-> JSONstringify(businessInsights, "risks"),
     follow_up_required |-> Bound(businessInsights, "followUpRequired"),
     created_at |-> <<"toISOString", now>>]

\* the mutant: the row is bound without its project and its meeting
InsightRowUnlinked(transcript, insight, projectId, now) ==
    [id |-> <<"insight_", transcript.id, "_", now>>,
     project_id |-> NullId,
     insight_type |-> insight.type,
     title |-> insight.title,
     description |-> insight.description,
     source_meeting_id |-> "",
     requires_action |-> insight.requiresAction,
     confidence_score |-> insight.confidence]

\* the row the project_insights statement binds
InsightRow(transcript, insight, projectId, now) ==
    [id |-> <<"insight_", transcript.id, "_", now>>,
     project_id |-> projectId,
     insight_type |-> insight.type,
     title |-> insight.title,
     description |-> insight.description,
     source_meeting_id |-> transcript.id,
     requires_action |-> insight.requiresAction,
     confidence_score |-> insight.confidence]

\* the same insight of the same meeting for the same project, whatever the id
SameInsight(a, b) == [a EXCEPT !.id = <<>>] = [b EXCEPT !.id = <<>>]

\* the mutant: the row takes the place of an earlier copy of the insight
InsertReplacingCopy(table, row) ==
    Append(SelectSeq(table, LAMBDA r : ~SameInsight(r, row)), row)

\* INSERT INTO project_insights: the row is added
Insert(table, row) == Append(table, row)

\* the mutant: every document goes to one key
DocumentKeyShared(id) == <<"meetings/meeting-", "latest", ".md">>

\* `meetings/meeting-${transcript.id}.md`
DocumentKey(id) == <<"meetings/meeting-", id, ".md">>

\* the same template, character by character
KeyText(id) ==
    <<"m", "e", "e", "t", "i", "n", "g", "s", "/", "m", "e", "e", "t", "i", "n", "g", "-">>
        \o id \o <<".", "m", "d">>

\* the mutant: a put that keeps the object the key had
uploadToR2KeepingOld(bucket, key, content) ==
    bucket \cup {[key |-> key, content |-> content, contentType |-> "text/markdown"]}

\* bucket.put: the object of that key is replaced
uploadToR2(bucket, key, content) ==
    {o \in bucket : o.key # key} \cup
    {[key |-> key, content |-> content, contentType |-> "text/markdown"]}

----------------------------------------------------------------------------
(* handleEnhancedMeetingSync *)

Handlers == {1, 2}
NoSignal == [attempts |-> 0, received |-> 0]

\* the lists the source returns: no, one or two transcripts, in any order, the
\* same one twice included
SourceLists == SeqsUpTo(TranscriptIds, 2)
NoResponse == [status |-> 0, body |-> [none |-> TRUE]]

\* ai.run has not been called
NotCalled == [rejects |-> FALSE, response |-> "(not called)"]

\* one async callback of transcripts.map: its local variables and where it is
NewPipe ==
    [pc |-> "associate", projectId |-> NullId, businessInsights |-> JsNull,
     ai |-> NotCalled, k |-> 0, inserted |-> <<>>,
     markdownContent |-> [none |-> TRUE], failedAt |-> "none"]

Settled(p) == p.pc \in {"fulfilled", "rejected"}
\* the mutant: the callback notes the failure and goes on to the upload
RejectedButContinues(p, step) == [p EXCEPT !.pc = "upload", !.failedAt = step]

\* the callback's promise settles; its local variables are gone (ai, projectId,
\* inserted and failedAt stay as a record of what happened)
Rejected(p, step) ==
    [NewPipe EXCEPT !.pc = "rejected", !.failedAt = step, !.ai = p.ai,
                    !.projectId = p.projectId, !.inserted = p.inserted]
Fulfilled(p) ==
    [NewPipe EXCEPT !.pc = "fulfilled", !.ai = p.ai, !.projectId = p.projectId,
                    !.inserted = p.inserted]

\* after the statements: createEnhancedMarkdown, then the upload is started
ToUpload(p, transcript, now) ==
    IF MarkdownThrows(p.businessInsights)
    THEN Rejected(p, "TypeError")
    ELSE [p EXCEPT !.pc = "upload",
                   !.markdownContent =
                       createEnhancedMarkdown(transcript, p.businessInsights,
                                              p.projectId, now)]

\* the mutant: the insight loop runs without a project id too
AfterUpsertAnyProject(p, transcript, now) ==
    IF LengthThrows(p.businessInsights, "insights")
    THEN Rejected(p, "TypeError")
    ELSE IF Len(p.businessInsights.insights) > 0
         THEN [p EXCEPT !.pc = "insert", !.k = 1]
         ELSE ToUpload(p, transcript, now)

\* after the meetings statement: the insight loop if there is something to insert
AfterUpsert(p, transcript, now) ==
    IF p.projectId # NullId
    THEN IF LengthThrows(p.businessInsights, "insights")
         THEN Rejected(p, "TypeError")
         ELSE IF Len(p.businessInsights.insights) > 0
              THEN [p EXCEPT !.pc = "insert", !.k = 1]
              ELSE ToUpload(p, transcript, now)
    ELSE ToUpload(p, transcript, now)

SetPipe(h, i, p) == pipe' = [pipe EXCEPT ![h][i] = p]

\* the mutant: the failure is answered with a server error
ErrorResponse500(details) ==
    [status |-> 500,
     body |-> [error |-> "Failed to sync meetings", details |-> details, count |-> 0]]

\* error.message of what the Fireflies call threw
ErrorMessage(how) ==
    IF how = "fetch rejects" THEN "fetch failed" ELSE "Unexpected token < in JSON"

ErrorResponse(details) ==
    [status |-> 200,
     body |-> [error |-> "Failed to sync meetings", details |-> details, count |-> 0]]

SuccessResponse(n, results) ==
    [status |-> 200,
     body |-> [count |-> n,
               message |-> <<"Successfully synced ", n,
                             " meetings with business intelligence">>,
               insightsGenerated |-> results * 2]]

\* the mutant: the catch of the handler triggers the AutoRAG sync too
FetchFailsSignalling(h) ==
    /\ phase[h] \in {"idle", "responded"}
    /\ signals' = [signals EXCEPT ![h] = [attempts |-> 1, received |-> 1]]
    /\ \E how \in {"fetch rejects", "body is not JSON"} :
          /\ source' = [source EXCEPT ![h] = how]
          /\ response' = [response EXCEPT ![h] = ErrorResponse(ErrorMessage(how))]
    /\ phase' = [phase EXCEPT ![h] = "responded"]
    /\ batch' = [batch EXCEPT ![h] = <<>>]
    /\ pipe' = [pipe EXCEPT ![h] = <<>>]
    /\ UNCHANGED <<store, clock, fetched, lastUpsert, query>>

\* the request arrives and the Fireflies call fails: fetch rejects, or the
\* body is not JSON
FetchFails(h) ==
    /\ phase[h] \in {"idle", "responded"}
    /\ signals' = [signals EXCEPT ![h] = NoSignal]
    /\ \E how \in {"fetch rejects", "body is not JSON"} :
          /\ source' = [source EXCEPT ![h] = how]
          /\ response' = [response EXCEPT ![h] = ErrorResponse(ErrorMessage(how))]
    /\ phase' = [phase EXCEPT ![h] = "responded"]
    /\ batch' = [batch EXCEPT ![h] = <<>>]
    /\ pipe' = [pipe EXCEPT ![h] = <<>>]
    /\ UNCHANGED <<store, clock, fetched, lastUpsert, query>>

\* the mutant: a missing list is taken for an empty one
FetchNoListAsEmpty(h) ==
    /\ phase[h] \in {"idle", "responded"}
    /\ signals' = [signals EXCEPT ![h] = NoSignal]
    /\ source' = [source EXCEPT ![h] = "no list"]
    /\ response' = [response EXCEPT ![h] = NoResponse]
    /\ phase' = [phase EXCEPT ![h] = "running"]
    /\ batch' = [batch EXCEPT ![h] = <<>>]
    /\ pipe' = [pipe EXCEPT ![h] = <<>>]
    /\ UNCHANGED <<store, clock, fetched, lastUpsert, query>>

\* the source answers without data.transcripts
FetchNoList(h) ==
    /\ phase[h] \in {"idle", "responded"}
    /\ signals' = [signals EXCEPT ![h] = NoSignal]
    /\ source' = [source EXCEPT ![h] = "no list"]
    /\ response' = [response EXCEPT ![h] = ErrorResponse("No transcripts found")]
    /\ phase' = [phase EXCEPT ![h] = "responded"]
    /\ batch' = [batch EXCEPT ![h] = <<>>]
    /\ pipe' = [pipe EXCEPT ![h] = <<>>]
    /\ UNCHANGED <<store, clock, fetched, lastUpsert, query>>

\* the source answers with a list: every callback runs up to its first await
FetchList(h) ==
    /\ phase[h] \in {"idle", "responded"}
    /\ signals' = [signals EXCEPT ![h] = NoSignal]
    /\ \E list \in SourceLists :
          /\ fetched + Len(list) <= MaxFetched
          /\ fetched' = fetched + Len(list)
          /\ batch' = [batch EXCEPT ![h] = list]
          /\ pipe' = [pipe EXCEPT ![h] = [i \in 1..Len(list) |-> NewPipe]]
    /\ source' = [source EXCEPT ![h] = "list"]
    /\ phase' = [phase EXCEPT ![h] = "running"]
    /\ response' = [response EXCEPT ![h] = NoResponse]
    /\ UNCHANGED <<store, clock, lastUpsert, query>>

\* the clock is read when a call returns: any time may have passed since the
\* last reading
Elapse == clock' \in clock..MaxClock

\* the mutant: the callbacks run one after the other, as in a loop that
\* awaits each transcript in turn
RunningInTurn(h, i, pc) ==
    /\ phase[h] = "running"
    /\ i \in 1..Len(pipe[h])
    /\ pipe[h][i].pc = pc
    /\ \A j \in 1..(i - 1) : Settled(pipe[h][j])

Running(h, i, pc) ==
    /\ phase[h] = "running"
    /\ i \in 1..Len(pipe[h])
    /\ pipe[h][i].pc = pc

\* the mutant: the association stamps the projects it looked at
AssociateTouching(h, i) ==
    /\ Running(h, i, "associate")
    /\ \E id \in associateTranscriptWithProject(projects, Transcripts[batch[h][i]].title) :
          SetPipe(h, i, [pipe[h][i] EXCEPT !.pc = "extract", !.projectId = id])
    /\ projects' = {[r EXCEPT !.updated_at = MaxUpdated] : r \in projects}
    /\ UNCHANGED <<tasks, meetings, project_insights, documents, clock, request,
                   lastUpsert, query>>

AssociateOk(h, i) ==
    /\ Running(h, i, "associate")
    /\ \E id \in associateTranscriptWithProject(projects, Transcripts[batch[h][i]].title) :
          SetPipe(h, i, [pipe[h][i] EXCEPT !.pc = "extract", !.projectId = id])
    /\ UNCHANGED <<store, clock, request, lastUpsert, query>>

AssociateFails(h, i) ==
    /\ Running(h, i, "associate")
    /\ SetPipe(h, i, Rejected(pipe[h][i], "associate"))
    /\ UNCHANGED <<store, clock, request, lastUpsert, query>>

\* generateBusinessInsights returns (it never rejects)
Extract(h, i) ==
    /\ Running(h, i, "extract")
    /\ \E out \in AiOutcomes :
          SetPipe(h, i, [pipe[h][i] EXCEPT
                            !.pc = "upsert",
                            !.ai = out,
                            !.businessInsights =
                                generateBusinessInsights(Transcripts[batch[h][i]], out)])
    /\ UNCHANGED <<store, clock, request, lastUpsert, query>>

\* binding the meetings statement throws: businessInsights is null
UpsertThrows(h, i) ==
    /\ Running(h, i, "upsert")
    /\ ReadThrows(pipe[h][i].businessInsights)
    /\ SetPipe(h, i, Rejected(pipe[h][i], "TypeError"))
    /\ UNCHANGED <<store, clock, request, lastUpsert, query>>

UpsertOk(h, i) ==
    /\ Running(h, i, "upsert")
    /\ ~ReadThrows(pipe[h][i].businessInsights)
    /\ Elapse
    /\ LET p == pipe[h][i]
           t == Transcripts[batch[h][i]]
           row == MeetingRow(t, p.businessInsights, p.projectId, clock')
       IN  /\ meetings' = InsertOrReplace(meetings, row)
           /\ lastUpsert' = [lastUpsert EXCEPT ![t.id] = row]
           /\ SetPipe(h, i, AfterUpsert(p, t, clock'))
    /\ UNCHANGED <<projects, tasks, project_insights, documents, request, query>>

\* the mutant: a failed meetings statement is swallowed and the callback goes on
UpsertFailsButContinues(h, i) ==
    /\ Running(h, i, "upsert")
    /\ ~ReadThrows(pipe[h][i].businessInsights)
    /\ SetPipe(h, i, AfterUpsert(pipe[h][i], Transcripts[batch[h][i]], clock))
    /\ UNCHANGED <<store, clock, request, lastUpsert, query>>

\* the meetings statement rejects: the callback's promise rejects with it
UpsertFails(h, i) ==
    /\ Running(h, i, "upsert")
    /\ ~ReadThrows(pipe[h][i].businessInsights)
    /\ SetPipe(h, i, Rejected(pipe[h][i], "upsert"))
    /\ UNCHANGED <<store, clock, request, lastUpsert, query>>

InsertOk(h, i) ==
    /\ Running(h, i, "insert")
    /\ Elapse
    /\ LET t == Transcripts[batch[h][i]]
           row == InsightRow(t, pipe[h][i].businessInsights.insights[pipe[h][i].k],
                             pipe[h][i].projectId, clock')
           p == [pipe[h][i] EXCEPT !.inserted = Append(@, row)]
       IN  /\ project_insights' = Insert(project_insights, row)
           /\ SetPipe(h, i, IF p.k < Len(p.businessInsights.insights)
                            THEN [p EXCEPT !.k = p.k + 1]
                            ELSE ToUpload(p, t, clock'))
    /\ UNCHANGED <<projects, tasks, meetings, documents, request, lastUpsert, query>>

\* the mutant: a failed insert takes back what the callback had written
InsertFailsRollingBack(h, i) ==
    /\ Running(h, i, "insert")
    /\ SetPipe(h, i, Rejected(pipe[h][i], "insert"))
    /\ meetings' = {r \in meetings : r.id # batch[h][i]}
    /\ project_insights' =
          SelectSeq(project_insights, LAMBDA r : r.source_meeting_id # batch[h][i])
    /\ UNCHANGED <<projects, tasks, documents, clock, request, lastUpsert, query>>

InsertFails(h, i) ==
    /\ Running(h, i, "insert")
    /\ SetPipe(h, i, Rejected(pipe[h][i], "insert"))
    /\ UNCHANGED <<store, clock, request, lastUpsert, query>>

UploadOk(h, i) ==
    /\ Running(h, i, "upload")
    /\ documents' = uploadToR2(documents, DocumentKey(batch[h][i]),
                               pipe[h][i].markdownContent)
    /\ SetPipe(h, i, Fulfilled(pipe[h][i]))
    /\ UNCHANGED <<projects, tasks, meetings, project_insights, clock, request, lastUpsert, query>>

UploadFails(h, i) ==
    /\ Running(h, i, "upload")
    /\ SetPipe(h, i, Rejected(pipe[h][i], "upload"))
    /\ UNCHANGED <<store, clock, request, lastUpsert, query>>

\* the mutant: every settled callback is counted
syncResultsLength(h) == Len(pipe[h])

\* syncResults.filter(result => result.status === 'fulfilled').length
successfulUploads(h) == Cardinality({i \in 1..Len(pipe[h]) : pipe[h][i].pc = "fulfilled"})

\* the mutant: Promise.all, which settles with the first rejection
AllSettledFailFast(h) ==
    /\ phase[h] = "running"
    /\ \/ \A i \in 1..Len(pipe[h]) : Settled(pipe[h][i])
       \/ \E i \in 1..Len(pipe[h]) : pipe[h][i].pc = "rejected"
    /\ phase' = [phase EXCEPT ![h] = "signal"]
    /\ UNCHANGED <<store, clock, signals, fetched, source, batch, response, pipe, lastUpsert, query>>

\* Promise.allSettled resolves, triggerAutoRAGSync is started
AllSettled(h) ==
    /\ phase[h] = "running"
    /\ \A i \in 1..Len(pipe[h]) : Settled(pipe[h][i])
    /\ phase' = [phase EXCEPT ![h] = "signal"]
    /\ UNCHANGED <<store, clock, signals, fetched, source, batch, response, pipe, lastUpsert, query>>

\* the mutant: a rejected trigger reaches the catch of the handler
RespondSignalThrows(h) ==
    /\ phase[h] = "signal"
    /\ \E reached \in {0, 1} :
          /\ signals' = [signals EXCEPT ![h] = [attempts |-> @.attempts + 1,
                                                 received |-> @.received + reached]]
          /\ response' = [response EXCEPT
                             ![h] = IF reached = 1
                                    THEN SuccessResponse(successfulUploads(h), Len(pipe[h]))
                                    ELSE ErrorResponse("fetch failed")]
    /\ phase' = [phase EXCEPT ![h] = "responded"]
    /\ UNCHANGED <<store, clock, fetched, source, batch, pipe, lastUpsert, query>>

\* the mutant: the response is built without awaiting the callbacks and the
\* trigger
RespondWithoutAwaiting(h) ==
    /\ phase[h] \in {"running", "signal"}
    /\ \E reached \in {0, 1} :
          signals' = [signals EXCEPT ![h] = [attempts |-> @.attempts + 1,
                                             received |-> @.received + reached]]
    /\ response' = [response EXCEPT
                       ![h] = SuccessResponse(successfulUploads(h), Len(pipe[h]))]
    /\ phase' = [phase EXCEPT ![h] = "responded"]
    /\ UNCHANGED <<store, clock, fetched, source, batch, pipe, lastUpsert, query>>

\* triggerAutoRAGSync returns, the request reached AutoRAG or not (the catch
\* swallows a rejected fetch); the response is built
Respond(h) ==
    /\ phase[h] = "signal"
    /\ \E reached \in {0, 1} :
          signals' = [signals EXCEPT ![h] = [attempts |-> @.attempts + 1,
                                             received |-> @.received + reached]]
    /\ response' = [response EXCEPT
                       ![h] = SuccessResponse(successfulUploads(h), Len(pipe[h]))]
    /\ phase' = [phase EXCEPT ![h] = "responded"]
    /\ UNCHANGED <<store, clock, fetched, source, batch, pipe, lastUpsert, query>>

Init ==
    /\ projects = DeployedProjects
    /\ tasks = DeployedTasks
    /\ meetings = {}
    /\ project_insights = <<>>
    /\ documents = {}
    /\ clock = 0
    /\ signals = [h \in Handlers |-> NoSignal]
    /\ fetched = 0
    /\ phase = [h \in Handlers |-> "idle"]
    /\ source = [h \in Handlers |-> "none"]
    /\ batch = [h \in Handlers |-> <<>>]
    /\ pipe = [h \in Handlers |-> <<>>]
    /\ response = [h \in Handlers |-> NoResponse]
    /\ lastUpsert = [id \in TranscriptIds |-> [id |-> Unset]]
    /\ q_title = <<>>
    /\ q_result = Unset
    /\ c_message = <<>>
    /\ c_result = NotReturned
    /\ e_request = NoRequest
    /\ e_outcome = Pending

\* the call the i-th callback awaits returns, and the callback runs up to
\* its next await
PipeStep(h, i) ==
    \/ AssociateOk(h, i)
    \/ AssociateFails(h, i)
    \/ Extract(h, i)
    \/ UpsertThrows(h, i)
    \/ UpsertOk(h, i)
    \/ UpsertFails(h, i)
    \/ InsertOk(h, i)
    \/ InsertFails(h, i)
    \/ UploadOk(h, i)
    \/ UploadFails(h, i)

Step(h) ==
    \/ FetchFails(h)
    \/ FetchNoList(h)
    \/ FetchList(h)
    \/ \E i \in 1..2 : PipeStep(h, i)
    \/ AllSettled(h)
    \/ Respond(h)

\* the requests arrive one after the other: handler 1 serves them all
Next == Step(1)

Spec == Init /\ [][Next]_vars

----------------------------------------------------------------------------
(* The sync when the calls of the second callback return, and the calls of
   the first may never return *)

SpecStuck == Init /\ [][Next]_vars /\ WF_vars(PipeStep(1, 2))

----------------------------------------------------------------------------
(* The sync when every call it awaits returns or fails: each callback that
   awaits a call takes its next step, Promise.allSettled resolves once every
   callback has settled, and the trigger returns *)

SpecFair ==
    /\ Init /\ [][Next]_vars
    /\ \A i \in 1..2 : WF_vars(PipeStep(1, i))
    /\ WF_vars(AllSettled(1))
    /\ WF_vars(Respond(1))

----------------------------------------------------------------------------
(* One sync by the size of its batch: the source returns a list of up to
   MaxListLen transcripts, the model answers every callback with prose, every
   upsert succeeds, and the uploads of the first k callbacks succeed *)

\* variables: { limit: 10 } of the GraphQL request
limit == 10

LongLists == SeqsUpTo(TranscriptIds, MaxListLen)

\* the mutant: the list is cut to the first limit transcripts
FirstTen(list) == SubSeq(list, 1, IF Len(list) < limit THEN Len(list) ELSE limit)

\* the transcripts a callback is started for: those of the list returned
transcriptsMapped(list) == list

SyncBatch ==
    /\ phase[1] = "idle"
    /\ \E list \in LongLists, k \in 0..MaxListLen :
          LET started == transcriptsMapped(list)
              prose == [rejects |-> FALSE, response |-> "I cannot help with that"]
              projectOf(id) ==
                  CHOOSE pid \in associateTranscriptWithProject(projects, Transcripts[id].title) : TRUE
              done(n) == [NewPipe EXCEPT !.ai = prose, !.projectId = projectOf(started[n])]
              row(id) == MeetingRow(Transcripts[id], FallbackInsights(Transcripts[id]),
                                    projectOf(id), clock)
              upserted == {started[n] : n \in 1..Len(started)}
              uploaded == {started[n] : n \in 1..k}
          IN  /\ k <= Len(started)
              /\ batch' = [batch EXCEPT ![1] = list]
              /\ pipe' = [pipe EXCEPT ![1] =
                              [n \in 1..Len(started) |->
                                  IF n <= k THEN Fulfilled(done(n))
                                  ELSE Rejected(done(n), "upload")]]
              /\ meetings' = {r \in meetings : r.id \notin upserted}
                                 \cup {row(id) : id \in upserted}
              /\ lastUpsert' = [id \in TranscriptIds |->
                                  IF id \in upserted THEN row(id) ELSE lastUpsert[id]]
              /\ documents' =
                    {o \in documents : \A id \in uploaded : o.key # DocumentKey(id)}
                        \cup {[key |-> DocumentKey(id),
                               content |-> createEnhancedMarkdown(
                                               Transcripts[id],
                                               FallbackInsights(Transcripts[id]),
                                               projectOf(id), clock),
                               contentType |-> "text/markdown"] : id \in uploaded}
              /\ response' = [response EXCEPT ![1] = SuccessResponse(k, Len(started))]
    /\ signals' = [signals EXCEPT ![1] = [attempts |-> 1, received |-> 1]]
    /\ source' = [source EXCEPT ![1] = "list"]
    /\ phase' = [phase EXCEPT ![1] = "responded"]
    /\ UNCHANGED <<projects, tasks, project_insights, clock, fetched, query>>

NextBatch == SyncBatch

SpecBatch == Init /\ [][NextBatch]_vars

----------------------------------------------------------------------------
(* Two sync requests served at the same time *)

NextOverlap == Step(1) \/ Step(2)

SpecOverlap == Init /\ [][NextOverlap]_vars

----------------------------------------------------------------------------
(* The sync while the external system creates and deletes projects *)

\* the external system deletes a project
ExternalDelete ==
    /\ \E r \in projects : projects' = projects \ {r}
    /\ UNCHANGED <<tasks, meetings, project_insights, documents, clock, sync, query>>

\* the external system creates a project
ExternalCreate ==
    /\ \E r \in DeployedProjects :
          /\ \A o \in projects : o.id # r.id
          /\ projects' = projects \cup {r}
    /\ UNCHANGED <<tasks, meetings, project_insights, documents, clock, sync, query>>

NextExternal == Step(1) \/ ExternalDelete \/ ExternalCreate

SpecExternal == Init /\ [][NextExternal]_vars

----------------------------------------------------------------------------
(* Claims about handleEnhancedMeetingSync *)

Pipes(h) == 1..Len(pipe[h])
RowsOf(id) == {r \in meetings : r.id = id}
DocsOf(id) == {o \in documents : o.key = DocumentKey(id)}
\* ai.run rejected, or resolved with text that is not JSON
AiFailed(p) ==
    \/ p.ai.rejects
    \/ p.ai.response \in AiTexts /\ ~JSONparse(p.ai.response).ok
\* the callback has the value generateBusinessInsights returned and has not used it yet
HasInsights(p) == p.pc = "upsert"
Finished(h) == phase[h] \in {"signal", "responded"}

\* C1: the meetings table holds at most one row per transcript id, and that
\* row is the one bound by the latest upsert of that id that ran
C1_OneRowPerIdLatestUpsert ==
    \A id \in TranscriptIds :
        /\ Cardinality(RowsOf(id)) <= 1
        /\ lastUpsert[id].id = Unset => RowsOf(id) = {}
        /\ lastUpsert[id].id # Unset => RowsOf(id) = {lastUpsert[id]}

\* the same transcript was upserted twice, with different insights, and one
\* row is there
C1_Witness ==
    /\ batch[1] = <<"t1", "t1">>
    /\ \A i \in Pipes(1) : pipe[1][i].pc = "fulfilled"
    /\ pipe[1][1].ai # pipe[1][2].ai
    /\ AiFailed(pipe[1][1]) /\ ~AiFailed(pipe[1][2])
    /\ Cardinality(meetings) = 1

\* C2: when the batch has settled, a callback whose own steps all succeeded
\* has its meeting row and its document stored, whatever step of a sibling
\* callback failed
C2_SiblingFailureIsolated ==
    \A h \in Handlers : Finished(h) =>
        \A a \in Pipes(h), b \in Pipes(h) :
            (a # b /\ pipe[h][a].pc = "rejected" /\ pipe[h][b].failedAt = "none") =>
                /\ pipe[h][b].pc = "fulfilled"
                /\ RowsOf(batch[h][b]) # {}
                /\ DocsOf(batch[h][b]) # {}

\* A failed at some step, B (another transcript) went through
C2_Witness ==
    /\ phase[1] = "responded"
    /\ batch[1] = <<"t1", "t2">>
    /\ pipe[1][1].pc = "rejected"
    /\ pipe[1][1].failedAt = "upsert"
    /\ pipe[1][2].pc = "fulfilled"
    /\ RowsOf("t2") # {}
    /\ DocsOf("t2") # {}

\* C3 as stated: the value generateBusinessInsights returns is an object with
\* all seven properties, whatever ai.run did
C3_InsightAlwaysWellShaped ==
    \A h \in Handlers : \A i \in Pipes(h) :
        HasInsights(pipe[h][i]) =>
            /\ pipe[h][i].businessInsights.type = "object"
            /\ pipe[h][i].businessInsights.missing = {}

\* C4 as stated: after a failed or unparseable model call the summary is the
\* meeting title
C4_FallbackSummaryIsTitle ==
    \A h \in Handlers : \A i \in Pipes(h) :
        (HasInsights(pipe[h][i]) /\ AiFailed(pipe[h][i])) =>
            pipe[h][i].businessInsights =
                JsObject(Transcripts[batch[h][i]].title, "project",
                         <<>>, <<>>, <<>>, <<>>, FALSE)

\* C4 amended: after a failed or unparseable model call the summary is
\* "Meeting: " followed by the meeting title, the four lists are empty,
\* meetingType is "project" and followUpRequired is false
C4_FallbackSummaryIsPrefixedTitle ==
    \A h \in Handlers : \A i \in Pipes(h) :
        (HasInsights(pipe[h][i]) /\ AiFailed(pipe[h][i])) =>
            pipe[h][i].businessInsights =
                JsObject(<<"M", "e", "e", "t", "i", "n", "g", ":", " ">>
                             \o Transcripts[batch[h][i]].title,
                         "project", <<>>, <<>>, <<>>, <<>>, FALSE)

\* the model call was rejected in one callback and answered with prose in the other
C4_Witness ==
    /\ Len(pipe[1]) = 2
    /\ HasInsights(pipe[1][1]) /\ pipe[1][1].ai.rejects
    /\ HasInsights(pipe[1][2]) /\ pipe[1][2].ai.response = "I cannot help with that"

\* C5: a callback whose model call failed or returned text that is not JSON
\* never fails on its insights; once past the upsert its meeting row is
\* stored; if no step of its own fails it is fulfilled, its row and its
\* document hold the fallback summary (no other callback of the batch having
\* the same id) and the response counts it
C5_ModelFailureStillSynced ==
    \A h \in Handlers : \A i \in Pipes(h) :
        LET p == pipe[h][i]
            t == Transcripts[batch[h][i]]
            alone == \A j \in Pipes(h) : j # i => batch[h][j] # t.id
        IN  AiFailed(p) =>
                /\ p.failedAt # "TypeError"
                /\ p.pc \in {"upload", "fulfilled"} => RowsOf(t.id) # {}
                /\ (Finished(h) /\ p.failedAt = "none") => p.pc = "fulfilled"
                /\ (p.pc = "fulfilled" /\ alone) =>
                      /\ \A r \in RowsOf(t.id) :
                            /\ r.summary = [undefined |-> FALSE,
                                            value |-> MeetingPrefix \o t.title]
                            /\ r.meeting_type.value = "project"
                            /\ r.action_items_json.json = <<"json", <<>>>>
                      /\ DocsOf(t.id) # {}
                      /\ \A o \in DocsOf(t.id) :
                            o.content.summary.value = MeetingPrefix \o t.title
                /\ (phase[h] = "responded" /\ p.pc = "fulfilled") =>
                      response[h].body.count >= 1

\* the model call was rejected for the only transcript, which is counted
C5_Witness ==
    /\ phase[1] = "responded"
    /\ batch[1] = <<"t1">>
    /\ pipe[1][1].ai.rejects
    /\ pipe[1][1].pc = "fulfilled"
    /\ response[1].body.count = 1
    /\ DocsOf("t1") # {}

\* C6: the response after a transcript list has status 200 and the success
\* shape, and its count is the number of callbacks no step of which failed;
\* each of them has its meeting row and its document stored
C6_CountIsCompletedPipelines ==
    \A h \in Handlers :
        (phase[h] = "responded" /\ source[h] = "list") =>
            /\ response[h].status = 200
            /\ DOMAIN response[h].body = {"count", "message", "insightsGenerated"}
            /\ response[h].body.count =
                  Cardinality({i \in Pipes(h) : pipe[h][i].failedAt = "none"})
            /\ \A i \in Pipes(h) :
                  pipe[h][i].failedAt = "none" =>
                      /\ RowsOf(batch[h][i]) # {}
                      /\ DocsOf(batch[h][i]) # {}

\* one of two transcripts failed and the count is 1
C6_Witness ==
    /\ phase[1] = "responded"
    /\ Len(pipe[1]) = 2
    /\ \E i \in Pipes(1) : pipe[1][i].pc = "rejected"
    /\ response[1].body.count = 1

\* C7: when the Fireflies call rejects or its body cannot be read, the
\* handler answers with status 200 and the body {error, details, count: 0}
C7_SourceFailureIsErrorResponse ==
    \A h \in Handlers :
        source[h] \in {"fetch rejects", "body is not JSON"} =>
            /\ phase[h] = "responded"
            /\ response[h].status = 200
            /\ DOMAIN response[h].body = {"error", "details", "count"}
            /\ response[h].body.count = 0

\* the Fireflies call was rejected after an earlier request had synced a meeting
C7_Witness ==
    /\ source[1] = "fetch rejects"
    /\ response[1].body.count = 0
    /\ meetings # {}

C9_MarkdownDeterministic ==
    \A h \in Handlers : \A i \in Pipes(h), j \in Pipes(h) :
        (/\ pipe[h][i].pc = "upload"
         /\ pipe[h][j].pc = "upload"
         /\ batch[h][i] = batch[h][j]
         /\ pipe[h][i].businessInsights = pipe[h][j].businessInsights
         /\ pipe[h][i].projectId = pipe[h][j].projectId) =>
            pipe[h][i].markdownContent = pipe[h][j].markdownContent

\* association has returned in this callback
Associated(p) == p.pc # "associate" /\ p.failedAt # "associate"
\* the rows of project_insights
InsightRows == {project_insights[k] : k \in 1..Len(project_insights)}

\* C12: a callback whose association returned null never enters the insight
\* loop and no insight row is stored for its transcript; when the batch has
\* settled and no step of its own failed it is fulfilled, the meeting row has
\* a null project reference, the document has project id "unknown", and the
\* response counts it
C12_NoProjectStillSynced ==
    \A h \in Handlers : \A i \in Pipes(h) :
        LET p == pipe[h][i]
            id == batch[h][i]
        IN  (Associated(p) /\ p.projectId = NullId) =>
                /\ p.pc # "insert" /\ p.inserted = <<>>
                /\ \A r \in InsightRows : r.source_meeting_id # id /\ r.project_id # NullId
                /\ p.pc \in {"upload", "fulfilled"} =>
                      \A r \in RowsOf(id) : r.project_id = NullId
                /\ (Finished(h) /\ p.failedAt = "none") =>
                      /\ p.pc = "fulfilled"
                      /\ RowsOf(id) # {} /\ DocsOf(id) # {}
                      /\ \A o \in DocsOf(id) :
                            /\ o.content.front.project_id = "unknown"
                            /\ o.content.project = "Not Associated"
                /\ (phase[h] = "responded" /\ p.pc = "fulfilled") =>
                      response[h].body.count >= 1

\* a transcript without a project, whose extraction holds two insights, is
\* synced and counted, and no insight row is stored
C12_Witness ==
    /\ phase[1] = "responded"
    /\ batch[1] = <<"t2">>
    /\ pipe[1][1].projectId = NullId
    /\ pipe[1][1].pc = "fulfilled"
    /\ pipe[1][1].ai.response = "{summary..insights:[r,o]}"
    /\ response[1].body.count = 1
    /\ project_insights = <<>>
    /\ \E r \in meetings : r.id = "t2" /\ r.project_id = NullId

\* the insights of the value generateBusinessInsights returned to a callback
\* that is fulfilled
InsightsOf(h, i) ==
    generateBusinessInsights(Transcripts[batch[h][i]], pipe[h][i].ai).insights

\* C13: a fulfilled callback has inserted one row per entry of
\* insights.insights, in order, when its project id is not null, and none
\* when it is null; every row a callback inserted is in project_insights;
\* every row of project_insights has a project reference that is not null and
\* the id of a transcript as source meeting; the rows a callback inserted
\* have its project id and its transcript id
C13_OneRowPerInsightOfProject ==
    /\ \A r \in InsightRows : r.project_id # NullId /\ r.source_meeting_id \in TranscriptIds
    /\ \A h \in Handlers : \A i \in Pipes(h) :
          LET p == pipe[h][i]
          IN  /\ \A k \in 1..Len(p.inserted) :
                    /\ p.inserted[k] \in InsightRows
                    /\ p.inserted[k].source_meeting_id = batch[h][i]
                    /\ p.inserted[k].project_id = p.projectId
              /\ p.pc = "fulfilled" =>
                    IF p.projectId = NullId THEN p.inserted = <<>>
                    ELSE /\ Len(p.inserted) = Len(InsightsOf(h, i))
                         /\ \A k \in 1..Len(p.inserted) :
                               /\ p.inserted[k].title = InsightsOf(h, i)[k].title
                               /\ p.inserted[k].insight_type = InsightsOf(h, i)[k].type

\* a callback with a project and two insights is fulfilled: two rows
C13_Witness ==
    /\ batch[1] = <<"t1">>
    /\ pipe[1][1].pc = "fulfilled"
    /\ pipe[1][1].projectId = "p1"
    /\ Len(pipe[1][1].inserted) = 2
    /\ Len(project_insights) = 2

\* C14 as stated: whenever a row is inserted into project_insights, also
\* while the external system creates and deletes projects, the projects table
\* holds the project the row references
C14_InsightProjectExistsAtInsert ==
    [][Len(project_insights') > Len(project_insights) =>
          \E r \in projects :
              r.id = project_insights'[Len(project_insights')].project_id]_vars

\* C15 as stated: no two rows of project_insights have the same id
C15_InsightIdsDistinct ==
    \A k \in 1..Len(project_insights), l \in 1..Len(project_insights) :
        k # l => project_insights[k].id # project_insights[l].id

\* the number of rows of project_insights holding the insight of row
Copies(row) ==
    Cardinality({k \in 1..Len(project_insights) : SameInsight(project_insights[k], row)})
\* the number of inserts of that insight by the callbacks of handler h
InsertedCopies(h, row) ==
    Cardinality({ik \in Pipes(h) \X (1..2) :
                    /\ ik[2] <= Len(pipe[h][ik[1]].inserted)
                    /\ SameInsight(pipe[h][ik[1]].inserted[ik[2]], row)})

\* C16: every step leaves the rows project_insights had as they were and
\* where they were, a new row coming after them; and the table holds a copy
\* of an insight for every time a callback inserted it
C16_InsightsAppendOnly ==
    /\ [](\A h \in Handlers : \A i \in Pipes(h) :
             \A k \in 1..Len(pipe[h][i].inserted) :
                 Copies(pipe[h][i].inserted[k]) >= InsertedCopies(h, pipe[h][i].inserted[k]))
    /\ [][/\ Len(project_insights') >= Len(project_insights)
          /\ SubSeq(project_insights', 1, Len(project_insights)) = project_insights]_vars

\* the same transcript was synced by two requests, with the same extraction
\* and project: each of the two insights is there twice
C16_Witness ==
    /\ phase[1] = "responded"
    /\ batch[1] = <<"t1">>
    /\ Len(pipe[1][1].inserted) = 2
    /\ Len(project_insights) = 4
    /\ SameInsight(project_insights[1], project_insights[3])
    /\ SameInsight(project_insights[2], project_insights[4])

\* C17: in a cycle that obtained a list the trigger is not attempted before
\* every callback has settled, and it has been attempted exactly once when
\* the response is there; the response then has status 200, no error field,
\* and the number of fulfilled callbacks as count, whether the trigger
\* reached AutoRAG or not
C17_OneSignalAfterAllSettled ==
    \A h \in Handlers : source[h] = "list" =>
        /\ phase[h] \in {"running", "signal"} => signals[h].attempts = 0
        /\ signals[h].attempts > 0 => \A i \in Pipes(h) : Settled(pipe[h][i])
        /\ phase[h] = "responded" =>
              /\ signals[h].attempts = 1
              /\ response[h].status = 200
              /\ "error" \notin DOMAIN response[h].body
              /\ response[h].body.count =
                    Cardinality({i \in Pipes(h) : pipe[h][i].pc = "fulfilled"})

\* the trigger did not reach AutoRAG, and the one synced transcript is counted
C17_Witness ==
    /\ phase[1] = "responded"
    /\ source[1] = "list"
    /\ batch[1] = <<"t1">>
    /\ signals[1] = [attempts |-> 1, received |-> 0]
    /\ pipe[1][1].pc = "fulfilled"
    /\ response[1].body.count = 1

\* the callbacks of the two handlers for transcript id
PipesFor(id) == {hi \in Handlers \X (1..2) : hi[2] \in Pipes(hi[1]) /\ batch[hi[1]][hi[2]] = id}
\* what the callback bound to the meetings statement, the clock reading now
RowWritten(hi, now) ==
    LET t == Transcripts[batch[hi[1]][hi[2]]]
        p == pipe[hi[1]][hi[2]]
    IN  MeetingRow(t, generateBusinessInsights(t, p.ai), p.projectId, now)
\* what the callback uploaded
DocWritten(hi, now) ==
    LET t == Transcripts[batch[hi[1]][hi[2]]]
        p == pipe[hi[1]][hi[2]]
    IN  createEnhancedMarkdown(t, generateBusinessInsights(t, p.ai), p.projectId, now)

\* C18: when two requests have synced the same transcript id, each with a
\* fulfilled callback, and both are finished, there is one meeting row and
\* one document for the id, the row being what one callback of the two
\* requests bound and the document what one of them uploaded
C18_OverlapLastWriterWins ==
    \A id \in TranscriptIds :
        (/\ Finished(1) /\ Finished(2)
         /\ \E i \in Pipes(1) : batch[1][i] = id /\ pipe[1][i].pc = "fulfilled"
         /\ \E j \in Pipes(2) : batch[2][j] = id /\ pipe[2][j].pc = "fulfilled") =>
            /\ Cardinality(RowsOf(id)) = 1
            /\ Cardinality(DocsOf(id)) = 1
            /\ \A r \in RowsOf(id) :
                  \E hi \in PipesFor(id), now \in 0..MaxClock :
                      pipe[hi[1]][hi[2]].ai # NotCalled /\ r = RowWritten(hi, now)
            /\ \A o \in DocsOf(id) :
                  \E hi \in PipesFor(id), now \in 0..MaxClock :
                      /\ pipe[hi[1]][hi[2]].pc = "fulfilled"
                      /\ o.content = DocWritten(hi, now)
                      /\ o.contentType = "text/markdown"

\* the two requests overlapped: the row is the one of handler 1, which
\* upserted last, and the document the one of handler 2, which uploaded last
C18_Witness ==
    /\ phase[1] = "responded" /\ phase[2] = "responded"
    /\ batch[1] = <<"t1">> /\ batch[2] = <<"t1">>
    /\ pipe[1][1].pc = "fulfilled" /\ pipe[2][1].pc = "fulfilled"
    /\ pipe[1][1].ai.rejects /\ ~AiFailed(pipe[2][1])
    /\ \E r \in meetings : r.summary.value = MeetingPrefix \o Transcripts["t1"].title
    /\ \E o \in documents : o.content.summary.value = <<"l", "a", "t", "e">>

\* C19: when the calls of the second callback of a batch return, it settles,
\* whether the calls of the first callback return or not; and a callback no
\* step of which failed has its meeting row stored once it is at the upload
\* and its document once it is fulfilled, wherever its sibling is
C19_StuckSiblingBlocksNobody ==
    /\ [](\A i \in Pipes(1) :
             /\ pipe[1][i].pc \in {"upload", "fulfilled"} => RowsOf(batch[1][i]) # {}
             /\ pipe[1][i].pc = "fulfilled" => DocsOf(batch[1][i]) # {})
    /\ (phase[1] = "running" /\ Len(pipe[1]) = 2)
          ~> (Len(pipe[1]) = 2 /\ Settled(pipe[1][2]))

\* the model call of the first callback has not returned, and the second
\* callback has gone through all its steps
C19_Witness ==
    /\ phase[1] = "running"
    /\ batch[1] = <<"t1", "t2">>
    /\ pipe[1][1].pc = "extract"
    /\ pipe[1][2].pc = "fulfilled"
    /\ RowsOf("t2") # {} /\ DocsOf("t2") # {}
    /\ RowsOf("t1") = {}

\* C25: no step of a sync changes the projects table or the tasks table
C25_SyncLeavesProjectsAndTasks ==
    [][projects' = projects /\ tasks' = tasks]_vars

\* a sync that found the project and stored a meeting, insights and a
\* document; the projects and the tasks are those of the start
C25_Witness ==
    /\ phase[1] = "responded"
    /\ batch[1] = <<"t1">>
    /\ pipe[1][1].pc = "fulfilled" /\ pipe[1][1].projectId = "p1"
    /\ Len(project_insights) = 2 /\ meetings # {} /\ documents # {}
    /\ projects = DeployedProjects /\ tasks = DeployedTasks

\* C27 as stated: in every stored document each sentence of the transcript,
\* at offset t, has the timestamp [m:ss] with m = t div 60 and ss = t mod 60
\* in two digits, t = 0 included
C27_EverySentenceHasTimestamp ==
    \A id \in TranscriptIds : \A o \in DocsOf(id) :
        \A n \in 1..Len(Transcripts[id].sentences) :
            LET t == Transcripts[id].sentences[n].start_time
            IN  o.content.transcript[n].timestamp =
                    <<"[", t \div 60, ":", (t % 60) \div 10, (t % 60) % 10, "]">>

\* the moves of a callback from one await to the next
OrderedMoves ==
    {<<"associate", "extract">>, <<"associate", "rejected">>, <<"extract", "upsert">>,
     <<"upsert", "insert">>, <<"upsert", "upload">>, <<"upsert", "rejected">>,
     <<"insert", "insert">>, <<"insert", "upload">>, <<"insert", "rejected">>,
     <<"upload", "fulfilled">>, <<"upload", "rejected">>}

\* the i-th callback of handler 1 leaves pc in this step
Leaves(i, pc) == i \in Pipes(1) /\ pipe[1][i].pc = pc /\ pipe'[1][i] # pipe[1][i]

\* C28: while a batch runs, a callback moves from the association to the
\* extraction, the upsert, the inserts (only with a project and insights) and
\* the upload, or from a step to rejected, and a settled callback moves no
\* more; the meetings table changes only in a step of a callback at its
\* upsert, project_insights only at an insert, the bucket only at an upload;
\* a callback that failed at the association has called no model, and one
\* that failed up to the upsert has inserted nothing
C28_StepsInOrder ==
    /\ [](\A i \in Pipes(1) :
             /\ pipe[1][i].failedAt = "associate" => pipe[1][i].ai = NotCalled
             /\ pipe[1][i].failedAt \in {"associate", "upsert"} =>
                    pipe[1][i].inserted = <<>>
             /\ pipe[1][i].pc = "insert" =>
                    /\ pipe[1][i].projectId # NullId
                    /\ RowsOf(batch[1][i]) # {})
    /\ [][/\ (phase[1] = "running" /\ phase'[1] = "running") =>
                \A i \in Pipes(1) :
                    \/ pipe'[1][i] = pipe[1][i]
                    \/ <<pipe[1][i].pc, pipe'[1][i].pc>> \in OrderedMoves
          /\ meetings' # meetings => \E i \in Pipes(1) : Leaves(i, "upsert")
          /\ project_insights' # project_insights => \E i \in Pipes(1) : Leaves(i, "insert")
          /\ documents' # documents => \E i \in Pipes(1) : Leaves(i, "upload")]_vars

\* the upsert of the only transcript failed: no row, no insight, no document
C28_Witness ==
    /\ phase[1] = "responded"
    /\ fetched = 1
    /\ batch[1] = <<"t1">>
    /\ pipe[1][1].failedAt = "upsert"
    /\ pipe[1][1].ai # NotCalled
    /\ meetings = {} /\ project_insights = <<>> /\ documents = {}

\* C30: a callback one of whose inserts failed is rejected; its meeting row
\* and the rows of its earlier inserts, the first of its insights in order,
\* are stored; the response does not count it; and, no callback having been
\* fulfilled for its transcript, the bucket has no document for it
C30_FailedInsertKeepsEarlierWrites ==
    \A i \in Pipes(1) :
        LET p == pipe[1][i]
            id == batch[1][i]
        IN  p.failedAt = "insert" =>
                /\ p.pc = "rejected"
                /\ RowsOf(id) # {}
                /\ Len(p.inserted) < Len(InsightsOf(1, i))
                /\ \A k \in 1..Len(p.inserted) :
                      /\ p.inserted[k].title = InsightsOf(1, i)[k].title
                      /\ Copies(p.inserted[k]) >= 1
                /\ (/\ fetched = Len(batch[1])
                    /\ \A j \in Pipes(1) : batch[1][j] = id => pipe[1][j].pc # "fulfilled") =>
                      DocsOf(id) = {}
                /\ phase[1] = "responded" => response[1].body.count < Len(pipe[1])

\* the second insert of the only transcript failed
C30_Witness ==
    /\ phase[1] = "responded"
    /\ fetched = 1
    /\ batch[1] = <<"t1">>
    /\ pipe[1][1].failedAt = "insert"
    /\ Len(pipe[1][1].inserted) = 1
    /\ Len(project_insights) = 1
    /\ RowsOf("t1") # {} /\ DocsOf("t1") = {}
    /\ response[1].body.count = 0

\* C29 as stated: whatever list the source returns, no more than 10
\* callbacks are started and the count is at most 10
C29_AtMostTenPipelines ==
    phase[1] = "responded" =>
        /\ Len(pipe[1]) <= 10
        /\ response[1].body.count <= 10

\* C29 amended: one callback is started for every transcript of the list the
\* source returns, and the count is at most the length of that list: at most
\* 10 when the source returns no more than the 10 it was asked for
C29_PipelinesAreTheReturnedList ==
    phase[1] = "responded" =>
        /\ Len(pipe[1]) = Len(batch[1])
        /\ response[1].body.count <= Len(batch[1])
        /\ response[1].body.count =
              Cardinality({n \in Pipes(1) : pipe[1][n].pc = "fulfilled"})
        /\ Len(batch[1]) <= limit =>
              (Len(pipe[1]) <= 10 /\ response[1].body.count <= 10)

\* the source returned 11 transcripts and all 11 were synced
C29_Witness ==
    /\ phase[1] = "responded"
    /\ Len(batch[1]) = 11
    /\ Len(pipe[1]) = 11
    /\ response[1].body.count = 11

\* transcript ids as the source may spell them, ".m" and "md" included
IdTexts == SeqsUpTo({"1", ".", "m", "d"}, 2)

\* C32: when a callback is fulfilled (it is then counted as a success), the
\* meetings table holds a row of its transcript id and the bucket holds, at
\* meetings/meeting-<id>.md, the document it uploaded; the counted successes
\* are the fulfilled callbacks; and the keys of distinct ids are distinct
C32_SuccessHasRowAndDocument ==
    /\ [](/\ \A a, b \in TranscriptIds : a # b => DocumentKey(a) # DocumentKey(b)
          /\ \A a, b \in IdTexts : a # b => KeyText(a) # KeyText(b)
          /\ phase[1] = "responded" /\ source[1] = "list" =>
                response[1].body.count =
                    Cardinality({i \in Pipes(1) : pipe[1][i].pc = "fulfilled"}))
    /\ [][\A i \in Pipes(1) :
             (/\ pipe[1][i].pc # "fulfilled"
              /\ i \in 1..Len(pipe'[1])
              /\ pipe'[1][i].pc = "fulfilled") =>
                 /\ \E r \in meetings' : r.id = batch[1][i]
                 /\ \E o \in documents' :
                       /\ o.key = <<"meetings/meeting-", batch[1][i], ".md">>
                       /\ o.content = pipe[1][i].markdownContent]_vars

\* two transcripts of one batch were counted, each with its row and its own
\* document
C32_Witness ==
    /\ phase[1] = "responded"
    /\ batch[1] = <<"t1", "t2">>
    /\ response[1].body.count = 2
    /\ RowsOf("t1") # {} /\ RowsOf("t2") # {}
    /\ \E o1, o2 \in documents :
          /\ o1.key = <<"meetings/meeting-", "t1", ".md">>
          /\ o2.key = <<"meetings/meeting-", "t2", ".md">>
          /\ o1 # o2

\* C33: in every state, with two requests served at the same time too, every
\* document in the bucket is stored under the key of a transcript id that has
\* a meetings row, and every project_insights row names as its source
\* meeting an id that has a meetings row
C33_WritesReferToStoredMeeting ==
    /\ \A o \in documents :
          \E id \in TranscriptIds : o.key = DocumentKey(id) /\ RowsOf(id) # {}
    /\ \A k \in 1..Len(project_insights) :
          /\ project_insights[k].source_meeting_id \in TranscriptIds
          /\ RowsOf(project_insights[k].source_meeting_id) # {}

\* a callback has inserted both its insight rows and uploaded its document,
\* and a later callback for the same id has failed at its meetings statement
C33_Witness ==
    /\ Len(project_insights) >= 2
    /\ DocsOf("t1") # {}
    /\ RowsOf("t1") # {}
    /\ \E h \in Handlers : \E i \in Pipes(h) :
          batch[h][i] = "t1" /\ pipe[h][i].failedAt = "upsert"

\* C34: a request whose Fireflies call fails, or is answered without a
\* transcript list, leaves every table and the bucket as they were, starts no
\* callback, sends no AutoRAG sync request, and is answered with count 0
C34_BatchFailureChangesNothing ==
    [][source'[1] \notin {"none", "list"} =>
          /\ store' = store
          /\ lastUpsert' = lastUpsert
          /\ pipe'[1] = <<>>
          /\ signals'[1] = NoSignal
          /\ phase'[1] = "responded"
          /\ response'[1].body.count = 0]_vars

\* a sync stored a meeting, its insight rows and its document; the next
\* request found no transcript list and all of it is still there
C34_Witness ==
    /\ phase[1] = "responded"
    /\ source[1] = "no list"
    /\ signals[1] = NoSignal
    /\ RowsOf("t1") # {} /\ DocsOf("t1") # {}
    /\ Len(project_insights) = 2

\* C35: when every awaited call returns or fails, a sync that obtained a list
\* is answered; and the answer is built in the step in which the trigger
\* returns, every callback having settled before
C35_SyncTerminatesAfterAllSettled ==
    /\ (phase[1] = "running") ~> (phase[1] = "responded" /\ response[1] # NoResponse)
    /\ [][(response'[1] # response[1] /\ response'[1] # NoResponse
               /\ source'[1] = "list") =>
              /\ phase[1] = "signal"
              /\ \A i \in Pipes(1) : Settled(pipe[1][i])
              /\ pipe'[1] = pipe[1]
              /\ signals[1].attempts = 0
              /\ signals'[1].attempts = 1]_vars

\* both callbacks of a batch failed, one at the association and one at the
\* upload, the trigger did not reach AutoRAG, and the request was answered
C35_Witness ==
    /\ phase[1] = "responded"
    /\ batch[1] = <<"t1", "t2">>
    /\ pipe[1][1].failedAt = "associate"
    /\ pipe[1][2].failedAt = "upload"
    /\ signals[1] = [attempts |-> 1, received |-> 0]
    /\ response[1].body.count = 0

\* the row and the document were made from the same insight object and the
\* same project id
SameRendering(r, o) ==
    \E out \in AiOutcomes, pid \in {NullId} \cup {x.id : x \in projects},
       rowTime \in 0..MaxClock, docTime \in 0..MaxClock :
        LET t == Transcripts[r.id]
            businessInsights == generateBusinessInsights(t, out)
        IN  /\ ~MarkdownThrows(businessInsights)
            /\ r = MeetingRow(t, businessInsights, pid, rowTime)
            /\ o.content = createEnhancedMarkdown(t, businessInsights, pid, docTime)

\* C31: when a sync has responded, the document stored for a transcript id
\* that has a meeting row was rendered from the insight object and the project
\* id that the row holds
C31_RowAndDocumentAgree ==
    phase[1] = "responded" =>
        \A id \in TranscriptIds : \A r \in RowsOf(id) : \A o \in DocsOf(id) :
            SameRendering(r, o)

----------------------------------------------------------------------------
(* associateTranscriptWithProject on every small projects table and title *)

NameChars == {"a", "B", "_", "%"}
TitleChars == {"a", "b", "A"}
NameValues == {NullStr} \cup SeqsUpTo(NameChars, 1)
TitleValues == SeqsUpTo(TitleChars, MaxTitleLen)

ProjectRows(p) ==
    [id : {p}, name : NameValues, autorag_project_tag : NameValues,
     updated_at : 1..MaxUpdated]

ProjectTables ==
    {t1 \cup t2 : t1 \in {{}} \cup {{r} : r \in ProjectRows("p1")},
                  t2 \in {{}} \cup {{r} : r \in ProjectRows("p2")}}

InitMatch ==
    /\ projects \in ProjectTables
    /\ tasks = DeployedTasks
    /\ q_title \in TitleValues
    /\ q_result = Unset
    /\ c_message = <<>>
    /\ c_result = NotReturned
    /\ e_request = NoRequest
    /\ e_outcome = Pending
    /\ meetings = {}
    /\ project_insights = <<>>
    /\ documents = {}
    /\ clock = 0
    /\ signals = [h \in Handlers |-> NoSignal]
    /\ fetched = 0
    /\ phase = [h \in Handlers |-> "idle"]
    /\ source = [h \in Handlers |-> "none"]
    /\ batch = [h \in Handlers |-> <<>>]
    /\ pipe = [h \in Handlers |-> <<>>]
    /\ response = [h \in Handlers |-> NoResponse]
    /\ lastUpsert = [id \in TranscriptIds |-> [id |-> Unset]]

CallAssociate ==
    /\ q_result = Unset
    /\ q_result' \in associateTranscriptWithProject(projects, q_title)
    /\ UNCHANGED <<store, clock, sync, q_title, c_message, c_result, e_request, e_outcome>>

NextMatch == CallAssociate

SpecMatch == InitMatch /\ [][NextMatch]_vars

----------------------------------------------------------------------------
(* Claims about associateTranscriptWithProject *)

\* name occurs in title as a substring, ignoring ASCII case
Contains(title, name) ==
    /\ name # NullStr
    /\ \E i \in 1..(Len(title) + 1) :
          /\ i + Len(name) - 1 <= Len(title)
          /\ \A k \in 1..Len(name) : LowerChar(title[i + k - 1]) = LowerChar(name[k])

\* pat, read as a LIKE pattern, covers the whole of w: the pattern positions
\* cut w into consecutive pieces, a % taking any piece, _ any one character,
\* another character one equal character (ignoring ASCII case)
Covers(w, pat) ==
    \E cut \in [0..Len(pat) -> 0..Len(w)] :
        /\ cut[0] = 0
        /\ cut[Len(pat)] = Len(w)
        /\ \A k \in 1..Len(pat) :
              /\ cut[k - 1] <= cut[k]
              /\ pat[k] # "%" =>
                    /\ cut[k] = cut[k - 1] + 1
                    /\ (pat[k] = "_" \/ LowerChar(pat[k]) = LowerChar(w[cut[k]]))

\* name, read as a LIKE pattern, covers some substring of title
WildContains(title, name) ==
    /\ name # NullStr
    /\ \E i \in 1..(Len(title) + 1), j \in 0..Len(title) :
          /\ i <= j + 1
          /\ Covers(SubSeq(title, i, j), name)

RowMatches(r) ==
    WildContains(q_title, r.name) \/ WildContains(q_title, r.autorag_project_tag)

\* C10 as stated: the result is a project whose name is contained in the title
\* whenever there is one, and null whenever the title contains no project's
\* name and no project's alias/tag
C10_NameContainedOrNull ==
    q_result # Unset =>
        /\ (\E r \in projects : Contains(q_title, r.name)) =>
              \E r \in projects : r.id = q_result /\ Contains(q_title, r.name)
        /\ (\A r \in projects : /\ ~Contains(q_title, r.name)
                                /\ ~Contains(q_title, r.autorag_project_tag)) =>
              q_result = NullId

\* C10 amended: the result is non-null whenever some project's name is
\* contained in the title; a non-null result is the id of a most recently
\* updated row among those whose name or alias/tag, read as a LIKE pattern,
\* occurs in the title; the result is null exactly when there is no such row
C10_LatestLikeMatchOrNull ==
    q_result # Unset =>
        /\ (\E r \in projects : Contains(q_title, r.name)) => q_result # NullId
        /\ q_result # NullId =>
              \E r \in projects :
                  /\ r.id = q_result
                  /\ RowMatches(r)
                  /\ \A o \in projects : RowMatches(o) => o.updated_at <= r.updated_at
        /\ q_result = NullId <=> \A r \in projects : ~RowMatches(r)

\* a project's name is in the title, and the project returned is another one,
\* matched by its alias/tag only
C10_Witness ==
    /\ q_result \notin {Unset, NullId}
    /\ \E r \in projects : Contains(q_title, r.name)
    /\ \E r \in projects :
          /\ r.id = q_result
          /\ ~Contains(q_title, r.name)
          /\ Contains(q_title, r.autorag_project_tag)

----------------------------------------------------------------------------
(* extractProjectContext on small project tables and messages *)

Goodwill == <<"G", "o", "o", "d", "w", "i", "l", "l">>
alleato == <<"a", "l", "l", "e", "a", "t", "o">>

\* a message is up to MaxFragments of these, one after the other
Fragments == {Goodwill, alleato, <<" ">>, <<"s">>}

RECURSIVE Concat(_)
Concat(ss) == IF ss = <<>> THEN <<>> ELSE Head(ss) \o Concat(Tail(ss))

Messages == {Concat(fs) : fs \in SeqsUpTo(Fragments, MaxFragments)}

ContextNames == {NullStr, Goodwill, alleato, <<"A">> \o Tail(alleato) \o <<" ">> \o Goodwill}

ContextRows(p) ==
    [id : {p}, name : ContextNames, autorag_project_tag : {NullStr},
     updated_at : 1..MaxUpdated]

ContextTables ==
    {t1 \cup t2 : t1 \in {{}} \cup {{r} : r \in ContextRows("p1")},
                  t2 \in {{}} \cup {{r} : r \in ContextRows("p2")}}

\* insights stored by earlier syncs
StoredInsights ==
    <<[id |-> <<"insight_", "t1", "_", 0>>, project_id |-> "p1", insight_type |-> "risk",
       title |-> "delay", description |-> "d1", source_meeting_id |-> "t1",
       requires_action |-> TRUE, confidence_score |-> 8],
      [id |-> <<"insight_", "t1", "_", 0>>, project_id |-> "p1",
       insight_type |-> "opportunity", title |-> "upsell", description |-> "d2",
       source_meeting_id |-> "t1", requires_action |-> FALSE, confidence_score |-> 5]>>

InitContext ==
    /\ projects \in ContextTables
    /\ tasks = DeployedTasks
    /\ project_insights \in {<<>>, StoredInsights}
    /\ c_message \in Messages
    /\ c_result = NotReturned
    /\ e_request = NoRequest
    /\ e_outcome = Pending
    /\ q_title = <<>>
    /\ q_result = Unset
    /\ meetings = {}
    /\ documents = {}
    /\ clock = 0
    /\ signals = [h \in Handlers |-> NoSignal]
    /\ fetched = 0
    /\ phase = [h \in Handlers |-> "idle"]
    /\ source = [h \in Handlers |-> "none"]
    /\ batch = [h \in Handlers |-> <<>>]
    /\ pipe = [h \in Handlers |-> <<>>]
    /\ response = [h \in Handlers |-> NoResponse]
    /\ lastUpsert = [id \in TranscriptIds |-> [id |-> Unset]]

CallExtractContext ==
    /\ c_result = NotReturned
    /\ c_result' \in extractProjectContext(c_message, projects, project_insights)
    /\ UNCHANGED <<store, clock, sync, q_title, q_result, c_message, e_request, e_outcome>>

NextContext == CallExtractContext

SpecContext == InitContext /\ [][NextContext]_vars

----------------------------------------------------------------------------
(* The endpoints, by what they give back *)

\* a request with what its calls will do: body (request.json()), store (the
\* D1 statements), model (ai.run), upstream (the AutoRAG answer service for
\* the chat, Fireflies for the sync), and what the view gives as
\* timeline_status of the project
Requests ==
    [endpoint : {"/api/chat", "/api/sync-meetings", "/api/project-dashboard",
                 "/api/projects"},
     method : {"GET", "POST"},
     id : {"", "p1", "p9"},
     body : {"json", "unreadable"},
     message : {<<"s">>, Goodwill, <<"s">> \o Goodwill},
     store : {"ok", "throws"},
     model : {"ok", "throws"},
     upstream : {"ok", "not ok", "rejects"},
     timeline_status : {"ON_TRACK", "null"}]

Rejected_(calls) == [Pending EXCEPT !.kind = "rejected", !.calls = calls]
Rejection == Rejected_({})
\* a Response with a JSON object of these fields as body (none: a text body)
HttpResponse(status, fields) ==
    [Pending EXCEPT !.kind = "response", !.status = status, !.fields = fields]

\* the outcomes handleEnhancedChat can have
handleEnhancedChat(req, db, insightsTable) ==
    IF req.method # "POST" THEN {HttpResponse(405, {})}
    ELSE IF req.body = "unreadable" THEN {Rejection}
    ELSE IF projectKeywords(req.message) # <<>> /\ req.store = "throws"
         THEN {[HttpResponse(200, {"response"}) EXCEPT
                   !.calls = {"SELECT project_dashboard"}]}
         ELSE {LET calls == (IF projectKeywords(req.message) # <<>>
                             THEN {"SELECT project_dashboard"} ELSE {})
                            \cup (IF ctx.id # NullId
                                  THEN {"SELECT project_insights"} ELSE {})
                            \cup {"autorag/ai-search"}
                   forwarded == [context |-> ctx.id, question |-> req.message]
               IN  IF req.upstream # "ok"
                   THEN [HttpResponse(200, {"response"}) EXCEPT
                            !.calls = calls, !.forwarded = forwarded]
                   ELSE [HttpResponse(200, {"response", "projectContext"}) EXCEPT
                            !.calls = calls, !.forwarded = forwarded,
                            !.projectContext = ctx.id]
               : ctx \in extractProjectContext(req.message, db, insightsTable)}

\* the requests to the sync endpoint, by method and by what Fireflies does
\* (the steps of the sync and what they write are the actions of Step)
handleEnhancedMeetingSync(req) ==
    IF req.method # "POST" THEN {HttpResponse(405, {})}
    ELSE IF req.upstream # "ok"
         THEN {HttpResponse(200, {"error", "details", "count"})}
         ELSE {HttpResponse(200, {"count", "message", "insightsGenerated"})}

\* generateExecutiveSummary: the text of the model, or the string of the
\* catch branch, which reads project.timeline_status.toLowerCase() and so
\* throws when timeline_status is null
generateExecutiveSummary(req) ==
    IF req.model = "ok" THEN "model text"
    ELSE IF req.timeline_status # "null" THEN "fallback" ELSE "TypeError"

\* date > date('now', '-30 days')
Last30Days == {"2025-01-07"}

AllDashboardCalls ==
    {"SELECT project_dashboard", "SELECT project_insights", "SELECT meetings",
     "SELECT tasks", "ai.run"}

\* the mutant: the project is looked for after everything was read
handleProjectDashboardReadsFirst(req, db, insightsTable, meetingsTable, tasksTable) ==
    IF req.id = "" THEN {HttpResponse(400, {"error"})}
    ELSE IF req.store = "throws" THEN {Rejected_({"SELECT project_dashboard"})}
    ELSE IF \A r \in project_dashboard(db) : r.id # req.id
         THEN {[HttpResponse(404, {"error"}) EXCEPT !.calls = AllDashboardCalls]}
         ELSE {[HttpResponse(200, {"project", "insights", "recentMeetings",
                                   "taskBreakdown", "executiveSummary"}) EXCEPT
                   !.calls = AllDashboardCalls]}

\* the outcomes handleProjectDashboard can have (the tables hold fewer rows
\* than LIMIT 10 and LIMIT 5 would cut)
handleProjectDashboard(req, db, insightsTable, meetingsTable, tasksTable) ==
    IF req.id = "" THEN {HttpResponse(400, {"error"})}
    ELSE IF req.store = "throws" THEN {Rejected_({"SELECT project_dashboard"})}
    ELSE IF \A r \in project_dashboard(db) : r.id # req.id
         THEN {[HttpResponse(404, {"error"}) EXCEPT
                   !.calls = {"SELECT project_dashboard"}]}
         ELSE IF generateExecutiveSummary(req) = "TypeError"
              THEN {Rejected_(AllDashboardCalls)}
              ELSE {[HttpResponse(200, {"project", "insights", "recentMeetings",
                                        "taskBreakdown", "executiveSummary"}) EXCEPT
                        !.calls = AllDashboardCalls,
                        !.insights = {insightsTable[k] : k \in
                                         {n \in 1..Len(insightsTable) :
                                             insightsTable[n].project_id = req.id}},
                        !.recentMeetings = {m \in meetingsTable :
                                               /\ m.project_id = req.id
                                               /\ m.date \in Last30Days},
                        !.executiveSummary = generateExecutiveSummary(req)]}

\* the mutant: the list also asks AutoRAG to sync
handleProjectsListSyncing(req) ==
    IF req.store = "throws" THEN {Rejected_({"SELECT project_dashboard"})}
    ELSE {[HttpResponse(200, {"projects", "summary"}) EXCEPT
              !.calls = {"SELECT project_dashboard", "autorag/sync"}]}

handleProjectsList(req) ==
    IF req.store = "throws" THEN {Rejected_({"SELECT project_dashboard"})}
    ELSE {[HttpResponse(200, {"projects", "summary"}) EXCEPT
              !.calls = {"SELECT project_dashboard"}]}

\* the worker's fetch: it returns the promise of the handler without
\* awaiting it, so its catch does not see a rejection of that promise
fetch(req, db, insightsTable, meetingsTable, tasksTable) ==
    CASE req.endpoint = "/api/chat" -> handleEnhancedChat(req, db, insightsTable)
      [] req.endpoint = "/api/sync-meetings" -> handleEnhancedMeetingSync(req)
      [] req.endpoint = "/api/project-dashboard" ->
            handleProjectDashboard(req, db, insightsTable, meetingsTable, tasksTable)
      [] req.endpoint = "/api/projects" -> handleProjectsList(req)
      [] OTHER -> {HttpResponse(404, {})}

----------------------------------------------------------------------------
(* The endpoints on every request *)

\* a project the chat can find
GoodwillProjects ==
    {[id |-> "p1", name |-> Goodwill, autorag_project_tag |-> NullStr, updated_at |-> 1]}

InitEndpoints ==
    /\ e_request \in Requests
    /\ e_outcome = Pending
    /\ projects \in {DeployedProjects, GoodwillProjects}
    /\ tasks = DeployedTasks
    /\ project_insights \in {<<>>, StoredInsights}
    /\ c_message = <<>>
    /\ c_result = NotReturned
    /\ q_title = <<>>
    /\ q_result = Unset
    /\ meetings \in {{}, {MeetingRow(Transcripts[id], FallbackInsights(Transcripts[id]), "p1", 0) :
                              id \in TranscriptIds}}
    /\ documents = {}
    /\ clock = 0
    /\ signals = [h \in Handlers |-> NoSignal]
    /\ fetched = 0
    /\ phase = [h \in Handlers |-> "idle"]
    /\ source = [h \in Handlers |-> "none"]
    /\ batch = [h \in Handlers |-> <<>>]
    /\ pipe = [h \in Handlers |-> <<>>]
    /\ response = [h \in Handlers |-> NoResponse]
    /\ lastUpsert = [id \in TranscriptIds |-> [id |-> Unset]]

Serve ==
    /\ e_outcome = Pending
    /\ e_outcome' \in fetch(e_request, projects, project_insights, meetings, tasks)
    /\ UNCHANGED <<store, clock, sync, q_title, q_result, c_message, c_result, e_request>>

NextEndpoints == Serve

SpecEndpoints == InitEndpoints /\ [][NextEndpoints]_vars

----------------------------------------------------------------------------
(* Claims about the endpoints *)

\* C20 as stated: every request gets a Response, and one with a status
\* other than 200 only when the project is not found or the request is not
\* valid (wrong method, no project id)
C20_EveryFailureAnswered ==
    e_outcome # Pending =>
        /\ e_outcome.kind = "response"
        /\ e_outcome.status # 200 =>
              \/ e_outcome.status = 405 /\ e_request.method # "POST"
              \/ e_outcome.status = 400 /\ e_request.id = ""
              \/ e_outcome.status = 404 /\ e_request.id = "p9"

\* the request is a dashboard request that names a project and whose
\* statements run
DashboardAsked ==
    /\ e_outcome # Pending
    /\ e_request.endpoint = "/api/project-dashboard"
    /\ e_request.id # ""
    /\ e_request.store = "ok"
\* the view has a row for the project asked for
ProjectFound == \E r \in projects : r.id = e_request.id

\* C21: a dashboard request for an id without a row in the view is answered
\* with status 404 and the body {error}, and nothing but the view was read
C21_UnknownProjectIs404 ==
    (DashboardAsked /\ ~ProjectFound) =>
        /\ e_outcome.kind = "response"
        /\ e_outcome.status = 404
        /\ e_outcome.fields = {"error"}
        /\ e_outcome.calls = {"SELECT project_dashboard"}

\* the project is unknown while insights and meetings are stored
C21_Witness ==
    /\ DashboardAsked
    /\ e_request.id = "p9"
    /\ e_outcome.status = 404
    /\ project_insights # <<>> /\ meetings # {}

\* C22 as stated: a dashboard request for a project without insights and
\* without recent meetings is answered with status 200, empty insights and
\* recentMeetings, and an executive summary, whether the model call
\* succeeds or throws
C22_EmptyDashboardHasSummary ==
    (/\ DashboardAsked /\ ProjectFound
     /\ \A k \in 1..Len(project_insights) : project_insights[k].project_id # e_request.id
     /\ \A r \in meetings : r.project_id # e_request.id) =>
        /\ e_outcome.kind = "response"
        /\ e_outcome.status = 200
        /\ e_outcome.insights = {} /\ e_outcome.recentMeetings = {}
        /\ "executiveSummary" \in e_outcome.fields
        /\ e_outcome.executiveSummary # ""

\* C23 as stated: when the model call of the summary throws, the dashboard
\* of every project, a null timeline status included, is answered with the
\* fallback string as executive summary
C23_SummaryFailureNeverBlocks ==
    (DashboardAsked /\ ProjectFound /\ e_request.model = "throws") =>
        /\ e_outcome.kind = "response"
        /\ e_outcome.status = 200
        /\ e_outcome.executiveSummary = "fallback"

\* the project extractProjectContext finds for the message of the request
ChatMatch == extractProjectContext(e_request.message, projects, project_insights)

\* C24 as stated: every answer to a chat query has a projectContext field;
\* without a matching project the query is forwarded as it is and
\* projectContext is null; with one, the query is forwarded behind the
\* context block of that project and projectContext names it
C24_ChatAlwaysCarriesContext ==
    (/\ e_outcome # Pending
     /\ e_request.endpoint = "/api/chat"
     /\ e_request.method = "POST" /\ e_request.body = "json") =>
        /\ e_outcome.kind = "response"
        /\ "projectContext" \in e_outcome.fields
        /\ e_outcome.forwarded.question = e_request.message
        /\ \E ctx \in ChatMatch :
              /\ e_outcome.forwarded.context = ctx.id
              /\ e_outcome.projectContext = ctx.id

\* the statements and services that change nothing
ReadingCalls ==
    {"SELECT project_dashboard", "SELECT project_insights", "SELECT meetings",
     "SELECT tasks", "ai.run", "autorag/ai-search"}

\* C26: a dashboard, project-list or chat request leaves the tables, the
\* bucket and the trigger count as they were, and runs SELECT statements,
\* the model and the answer service only
C26_ReadPathsReadOnly ==
    [][e_request.endpoint \in {"/api/project-dashboard", "/api/projects", "/api/chat"} =>
          /\ UNCHANGED <<projects, tasks, meetings, project_insights, documents, signals>>
          /\ e_outcome'.calls \subseteq ReadingCalls]_vars

\* a chat query found its project, read its insights and was answered
C26_Witness ==
    /\ e_request.endpoint = "/api/chat"
    /\ e_outcome.kind = "response"
    /\ e_outcome.projectContext = "p1"
    /\ {"SELECT project_insights", "autorag/ai-search"} \subseteq e_outcome.calls
    /\ project_insights = StoredInsights
    /\ documents = {} /\ signals[1].attempts = 0

----------------------------------------------------------------------------
(* Claims about extractProjectContext *)

KeywordSet == {projectKeywordList[n] : n \in 1..Len(projectKeywordList)}

\* kw stands in text at position i, as part of a longer word or not
StandsAt(text, kw, i) ==
    /\ i + Len(kw) - 1 <= Len(text)
    /\ \A k \in 1..Len(kw) : LowerChar(text[i + k - 1]) = kw[k]

\* kw stands in text at position i as a whole word
StandsAloneAt(text, kw, i) ==
    /\ StandsAt(text, kw, i)
    /\ (i > 1 => LowerChar(text[i - 1]) \notin WordChars)
    /\ (i + Len(kw) <= Len(text) => LowerChar(text[i + Len(kw)]) \notin WordChars)

\* the keywords occurring first in the message, as substrings
FirstOccurring(text) ==
    {kw \in KeywordSet :
        \E i \in 1..Len(text) :
            /\ StandsAt(text, kw, i)
            /\ \A j \in 1..(i - 1) : \A o \in KeywordSet : ~StandsAt(text, o, j)}

\* the keywords occurring first in the message, as whole words
FirstWholeWord(text) ==
    {kw \in KeywordSet :
        \E i \in 1..Len(text) :
            /\ StandsAloneAt(text, kw, i)
            /\ \A j \in 1..(i - 1) : \A o \in KeywordSet : ~StandsAloneAt(text, o, j)}

\* the result is null if firsts is empty or no project name contains the
\* keyword, else a most recently updated project among those whose name does
LatestNamedOrNull(firsts) ==
    /\ firsts = {} => c_result.id = NullId
    /\ \A kw \in firsts :
          LET named == {r \in projects : Contains(r.name, kw)}
          IN  /\ named = {} => c_result.id = NullId
              /\ named # {} =>
                    \E r \in named :
                        /\ r.id = c_result.id
                        /\ \A o \in named : o.updated_at <= r.updated_at

\* C11 as stated: the result is decided by the first keyword occurring in the
\* message: null without one or without a project name containing it, else
\* the most recently updated project whose name contains it
C11_FirstKeywordDecides ==
    c_result # NotReturned => LatestNamedOrNull(FirstOccurring(c_message))

\* C11 amended: the same, a keyword counting only where it stands as a whole
\* word (no letter, digit or underscore next to it)
C11_FirstWholeWordKeywordDecides ==
    c_result # NotReturned => LatestNamedOrNull(FirstWholeWord(c_message))

\* two keywords in the message, each the name of a project: the project of
\* the first is returned, though the other was updated later
C11_Witness ==
    /\ c_message = alleato \o <<" ">> \o Goodwill
    /\ \E r \in projects, o \in projects :
          /\ r.id = c_result.id /\ r.name = alleato
          /\ o.name = Goodwill /\ o.updated_at > r.updated_at

====
